---------------------------- MODULE Spec2Model ----------------------------
(***************************************************************************)
(* A state-machine model of scr/check_netcdf.py: the __main__ block,       *)
(* traverse_structure, check_netcdf, compare_varlists, update_variables    *)
(* and update_vertlev.                                                      *)
(*                                                                         *)
(* Names of directory entries are sequences of character codes, ordered as *)
(* Python orders str.  NetCDF variable names are strings, ordered by Rank. *)
(* A vertical level is an integer number of 1e-5 length units, so that the *)
(* tolerances of numpy.isclose are integers too.                           *)
(***************************************************************************)
EXTENDS Integers, Sequences, FiniteSets, TLC

\* ------------------------------------------------------------------ bounds
\* Most files in one station directory (rich-content family).
MaxFiles == 3
\* Most vertical levels of a profile file.
MaxLev == 2
\* Most entries of the destination root.
MaxRoot == 2

\* --------------------------------------------------------- Python helpers
Range(s) == {s[i] : i \in DOMAIN s}

Abs(x) == IF x < 0 THEN -x ELSE x

\* "no value" of an integer local (myzsize = None) and of a path (tmpname = None)
NoSize == -1
NoPath == <<>>

RECURSIVE LexLess(_, _)
\* a < b for two Python str, given as sequences of character codes
LexLess(a, b) ==
  IF a = <<>> THEN b # <<>>
  ELSE IF b = <<>> THEN FALSE
  ELSE IF Head(a) # Head(b) THEN Head(a) < Head(b)
  ELSE LexLess(Tail(a), Tail(b))

RECURSIVE SortedReverseAsc(_)
\* a faulty ordering: ascending instead of descending
SortedReverseAsc(S) ==
  IF S = {} THEN <<>>
  ELSE LET m == CHOOSE x \in S : \A y \in S \ {x} : LexLess(x, y)
       IN  <<m>> \o SortedReverseAsc(S \ {m})

RECURSIVE SortedReverse(_)
\* sorted(os.listdir(d), reverse=True): the names of a directory, greatest first
SortedReverse(S) ==
  IF S = {} THEN <<>>
  ELSE LET m == CHOOSE x \in S : \A y \in S \ {x} : LexLess(y, x)
       IN  <<m>> \o SortedReverse(S \ {m})

\* s.endswith(suf) and s.startswith(pre)
EndsWith(s, suf) ==
  /\ Len(s) >= Len(suf)
  /\ SubSeq(s, Len(s) - Len(suf) + 1, Len(s)) = suf

StartsWith(s, pre) ==
  /\ Len(s) >= Len(pre)
  /\ SubSeq(s, 1, Len(pre)) = pre

\* ".nc", "-updated" and "SN" as character codes
DotNc == <<46, 110, 99>>
DashUpdated == <<45, 117, 112, 100, 97, 116, 101, 100>>
SNPrefix == <<83, 78>>

\* The order of Python str on the variable names of the model.
VarNames == {"air_temperature", "depth", "soil_temperature", "time"}

Rank(n) ==
  CASE n = "air_temperature" -> 1
    [] n = "depth" -> 2
    [] n = "soil_temperature" -> 3
    [] n = "time" -> 4

RECURSIVE InsertSorted(_, _)
InsertSorted(x, s) ==
  IF s = <<>> THEN <<x>>
  ELSE IF Rank(x) <= Rank(Head(s)) THEN <<x>> \o s
  ELSE <<Head(s)>> \o InsertSorted(x, Tail(s))

RECURSIVE sorted(_)
\* sorted(list) of variable names
sorted(s) == IF s = <<>> THEN <<>> ELSE InsertSorted(Head(s), sorted(Tail(s)))

\* a faulty comparison: the lists compared as they stand
compare_varlists_unsorted(curlist, reflist) == curlist = reflist

\* compare_varlists(curlist, reflist)
compare_varlists(curlist, reflist) ==
  LET curlist_sorted == sorted(curlist)
      reflist_sorted == sorted(reflist)
  IN  IF curlist_sorted # reflist_sorted THEN FALSE ELSE TRUE

\* numpy.isclose(a, b): |a - b| <= atol + rtol * |b| with rtol = 1e-5 and
\* atol = 1e-8.  Levels count 1e-5 units, so with both sides multiplied by 1e5
\* this is 1e5 |a - b| <= 100 + |b|, which for integers is the quotient below.
RTolInv == 100000
ATolScaled == 100
isclose(a, b) == Abs(a - b) <= (ATolScaled + Abs(b)) \div RTolInv

\* A value stored into a numpy array of dtype 'i2'.
Int16Mod == 65536
Int16Half == 32768
CastI2(x) == ((x + Int16Half) % Int16Mod) - Int16Half

\* str(x) of a number and int(s) / float(s) of a str: "" does not parse.
EmptyStr == <<>>
Str(x) == <<x>>
Parses(s) == s # EmptyStr
ParseNum(s) == s[1]

\* ------------------------------------------------------- NetCDF datasets
(***************************************************************************)
(* A variable is [dims, dtype, fill, attrs, data]: attrs says that it has  *)
(* every attribute the program reads from it; data is a matrix, one row    *)
(* per index of the first dimension (one cell per row for one dimension).  *)
(* A dataset is [ftype, ntime, varlist, v]: the featureType attribute      *)
(* ("absent" when missing), the size of the time dimension, the variable   *)
(* names in declaration order, and the variables.                          *)
(***************************************************************************)
NcSize(var) == Len(var.data)

\* ncds[name][:] of a one-dimensional variable
NcValues(var) == [k \in 1..Len(var.data) |-> var.data[k][1]]

Min(S) == CHOOSE x \in S : \A y \in S : x <= y

\* a faulty update_variables: the variable is created in a dataset opened
\* afresh, so the variables the file had are gone
update_variables_clobber(ncds, missingvar) ==
  IF ~Parses(missingvar.missing) \/ missingvar.name \in Range(ncds.varlist)
  THEN [ncds |-> ncds, raised |-> TRUE]
  ELSE LET misval == [dims |-> <<"time">>, dtype |-> missingvar.dtype,
                      fill |-> ParseNum(missingvar.missing), attrs |-> TRUE,
                      data |-> [i \in 1..ncds.ntime |-> <<ParseNum(missingvar.missing)>>]]
       IN  [ncds |-> [ncds EXCEPT !.varlist = <<missingvar.name>>,
                        !.v = [n \in {missingvar.name} |-> misval]],
            raised |-> TRUE]

\* update_variables(ncds, missingvar): the dataset afterwards, and whether it raised.
\* int() / float() of the missing value raise before anything is created;
\* createVariable raises on a name in use; ncds['time'] raises, after the
\* variable has been created, when the file has no time variable.  The created
\* variable is never written (misval = tmp rebinds a local), so it reads as its
\* fill value.
update_variables(ncds, missingvar) ==
  IF ~Parses(missingvar.missing) \/ missingvar.name \in Range(ncds.varlist)
  THEN [ncds |-> ncds, raised |-> TRUE]
  ELSE LET misval == [dims |-> <<"time">>, dtype |-> missingvar.dtype,
                      fill |-> ParseNum(missingvar.missing), attrs |-> TRUE,
                      data |-> [i \in 1..ncds.ntime |-> <<ParseNum(missingvar.missing)>>]]
       IN  [ncds |-> [ncds EXCEPT !.varlist = Append(@, missingvar.name),
                        !.v = [n \in DOMAIN ncds.v \cup {missingvar.name} |->
                                 IF n = missingvar.name THEN misval ELSE ncds.v[n]]],
            raised |-> "time" \notin Range(ncds.varlist)]

\* The profile variables update_vertlev carries over.
myvars == <<"soil_temperature">>

\* the default fill value of a new 'i4' variable
DefaultFillInt == -2147483647

\* tmparr2[i][j] after the fill loop of update_vertlev: tmparr2 is 'f4' for a
\* float32 variable and 'i2' otherwise.
RemapCell(tmparr, myvertvalues, vertvalues, i, j, fillvalue, isfloat) ==
  LET myindex == {k \in 1..Len(myvertvalues) : isclose(myvertvalues[k], vertvalues[j])}
  IN  IF myindex # {}
      THEN (IF isfloat THEN tmparr[i][Min(myindex)] ELSE CastI2(tmparr[i][Min(myindex)]))
      ELSE (IF isfloat THEN fillvalue ELSE CastI2(fillvalue))

\* Whether update_vertlev, once the new dataset exists, raises on the original:
\* a variable or an attribute it reads is absent.
VertlevRaises(ncds, vertcoord) ==
  \/ "time" \notin Range(ncds.varlist)
  \/ ~ncds.v["time"].attrs
  \/ vertcoord \notin Range(ncds.varlist)
  \/ ~ncds.v[vertcoord].attrs
  \/ \E k \in DOMAIN myvars :
       \/ myvars[k] \notin Range(ncds.varlist)
       \/ ~ncds.v[myvars[k]].attrs
       \/ Len(ncds.v[myvars[k]].dims) # 2

\* the time variable of newncds (lines 164-168)
NewTime(ncds) ==
  [dims |-> <<"time">>, dtype |-> "int32", fill |-> DefaultFillInt, attrs |-> TRUE,
   data |-> ncds.v["time"].data]

\* the vertical coordinate of newncds (lines 169-173)
NewDepth(ncds, vertcoord, vertvalues) ==
  [dims |-> <<vertcoord>>, dtype |-> "float32", fill |-> ncds.v[vertcoord].fill,
   attrs |-> TRUE, data |-> [k \in 1..Len(vertvalues) |-> <<vertvalues[k]>>]]

\* The dataset update_vertlev builds (newncds at its close).
update_vertlev(ncds, vertcoord, vertvalues) ==
  LET mytimedim == NcSize(ncds.v["time"])
      myvertvalues == NcValues(ncds.v[vertcoord])
      newvar(el) ==
        [dims |-> <<"time", vertcoord>>, dtype |-> ncds.v[el].dtype,
         fill |-> ncds.v[el].fill, attrs |-> TRUE,
         data |-> [i \in 1..mytimedim |-> [j \in 1..Len(vertvalues) |->
                     RemapCell(ncds.v[el].data, myvertvalues, vertvalues, i, j,
                               ncds.v[el].fill, ncds.v[el].dtype = "float32")]]]
      names == {"time", vertcoord} \cup Range(myvars)
  IN  [ftype |-> ncds.ftype, ntime |-> mytimedim,
       varlist |-> <<"time", vertcoord>> \o myvars,
       v |-> [n \in names |-> IF n = "time" THEN NewTime(ncds)
                              ELSE IF n = vertcoord THEN NewDepth(ncds, vertcoord, vertvalues)
                              ELSE newvar(n)]]

\* what newncds holds when update_vertlev raises on the original dataset: the
\* variables created before the statement that raised
PartialNew(ncds, vertcoord, vertvalues) ==
  IF "time" \in Range(ncds.varlist) /\ ncds.v["time"].attrs
     /\ vertcoord \in Range(ncds.varlist) /\ ncds.v[vertcoord].attrs
  THEN [ftype |-> ncds.ftype, ntime |-> NcSize(ncds.v["time"]),
        varlist |-> <<"time", vertcoord>>,
        v |-> [n \in {"time", vertcoord} |->
                 IF n = "time" THEN NewTime(ncds)
                 ELSE NewDepth(ncds, vertcoord, vertvalues)]]
  ELSE [ftype |-> "absent", ntime |-> 0, varlist |-> <<>>, v |-> <<>>]

\* ------------------------------------------------------------ input files
\* Longest time axis of a profile file of the remapping family.
MaxTime == 2

TimeVar(n) ==
  [dims |-> <<"time">>, dtype |-> "int32", fill |-> DefaultFillInt, attrs |-> TRUE,
   data |-> [i \in 1..n |-> <<i>>]]

\* a float32 variable over time holding measurements
DataVar(n, hasattrs) ==
  [dims |-> <<"time">>, dtype |-> "float32", fill |-> -999, attrs |-> hasattrs,
   data |-> [i \in 1..n |-> <<20 + i>>]]

\* the vertical coordinate variable
LevelVar(levels) ==
  [dims |-> <<"depth">>, dtype |-> "float32", fill |-> -999, attrs |-> TRUE,
   data |-> [k \in 1..Len(levels) |-> <<levels[k]>>]]

\* soil_temperature over dims, cell (i, k) holding base + 10 i + k
SoilVar(n, nlev, dims, dtype, base) ==
  [dims |-> dims, dtype |-> dtype, fill |-> -999, attrs |-> TRUE,
   data |-> [i \in 1..n |-> [k \in 1..nlev |-> base + 10 * i + k]]]

\* a point-series file declaring the variables names
PointFile(names, hasattrs) ==
  [ftype |-> "timeSeries", ntime |-> 1, varlist |-> names,
   v |-> [x \in Range(names) |->
            IF x = "time" THEN TimeVar(1) ELSE DataVar(1, hasattrs)]]

\* a profile file declaring names, with the given levels and profile data
ProfileFile(names, levels, n, dims, dtype, base) ==
  [ftype |-> "timeSeriesProfile", ntime |-> n, varlist |-> names,
   v |-> [x \in Range(names) |->
            CASE x = "time" -> TimeVar(n)
              [] x = "depth" -> LevelVar(levels)
              [] x = "soil_temperature" -> SoilVar(n, Len(levels), dims, dtype, base)
              [] OTHER -> DataVar(n, TRUE)]]

TD == <<"time", "depth">>
Prof3 == <<"time", "depth", "soil_temperature">>
Prof4 == <<"time", "depth", "soil_temperature", "air_temperature">>

\* level values: 0, 1, 1.00001 and 2 length units
LevelVals == {0, 100000, 100001, 200000}

\* the first n of the levels 1, 2, 1.00001, 0
AscLevels(n) == SubSeq(<<100000, 200000, 100001, 0>>, 1, n)

\* level sequences of the rich family: each count up to MaxLev, and one reordered
LevelChoices ==
  {AscLevels(n) : n \in 0..MaxLev} \cup {<<200000>> \o AscLevels(MaxLev - 1)}

\* strictly increasing level sequences of at most n levels
IncLevels(n) ==
  UNION {{s \in [1..m -> LevelVals] : \A a, b \in 1..m : a < b => s[a] < s[b]} : m \in 0..n}

\* files of the rich family
CatRich ==
  {PointFile(<<"time", "air_temperature">>, TRUE), PointFile(<<"time">>, TRUE),
   PointFile(<<>>, TRUE),
   ProfileFile(Prof4, AscLevels(MaxLev), 1, TD, "float32", 0)}
  \cup {ProfileFile(Prof3, l, 1, TD, "float32", 0) : l \in LevelChoices}

\* files on which the program raises, or backfills only in part
CatFault ==
  {[PointFile(<<"time">>, TRUE) EXCEPT !.ftype = "absent"],
   PointFile(<<"time", "air_temperature">>, FALSE),
   PointFile(<<"air_temperature">>, TRUE),
   ProfileFile(<<"time", "depth">>, AscLevels(1), 1, TD, "float32", 0),
   ProfileFile(Prof3, AscLevels(1), 1, <<"time", "depth", "x">>, "float32", 0)}

\* duplicate-free declaration orders of point-series variables
VarOrders ==
  LET U == {"time", "air_temperature", "depth"}
  IN  UNION {{s \in [1..m -> U] : \A a, b \in 1..m : a # b => s[a] # s[b]} : m \in 0..3}

\* names of directory entries: "9", "10"; "a.nc", "b.nc", "b.txt", "a.nc-updated"
Y9 == <<57>>
Y10 == <<49, 48>>
FA == <<97>> \o DotNc
FB == <<98>> \o DotNc
FBtxt == <<98, 46, 116, 120, 116>>
FAupd == FA \o DashUpdated

\* the paths of the families whose file names are fixed, greatest first
FixedPaths == <<<<Y9, FB>>, <<Y9, FA>>, <<Y10, FB>>, <<Y10, FA>>>>

\* a station directory holding files (a sequence) at the first fixed paths
StationOf(files) ==
  [p \in {FixedPaths[i] : i \in 1..Len(files)} |->
     files[CHOOSE i \in 1..Len(files) : FixedPaths[i] = p]]

\* ---------------------------------------------------------------- state
VARIABLES
  overwrite,     \* args.overwrite
  rootok,        \* whether os.listdir(args.destination) succeeds
  listing,       \* os.listdir(args.destination), in the order it is returned
  fs,            \* fs[i]: the files below root entry i, path |-> dataset
  fs0,           \* fs as the run started
  mpc,           \* position in __main__ and traverse_structure
  tpos,          \* root entries traverse_structure has gone past
  outcome,       \* the exit status of the process (NoSize while running)
  log,           \* the ERROR and WARNING records written so far
  calls,         \* the root entries check_netcdf was invoked on, in order
  pc,            \* position in check_netcdf
  years,         \* what is left of sorted(os.listdir(stdir), reverse=True)
  curyear,       \* item of the outer loop
  todo,          \* what is left of sorted(os.listdir(curdir), reverse=True)
  myvariables,   \* the reference schema: tmpdict records in insertion order
  myzsize,       \* the canonical number of vertical levels (NoSize: None)
  myvertvalues,  \* the canonical vertical levels
  myvert,        \* the vertical coordinate name ("unbound" before it is assigned)
  myncds,        \* the path of the dataset bound to myncds (NoPath: none)
  tmpvars,       \* list(myncds.variables.keys()) as the file was opened
  tmpname,       \* the path update_vertlev returned (NoPath: None)
  featureType,   \* the featureType read from the open file
  same,          \* the last result of compare_varlists
  order,         \* the paths opened in this station, in order
  opened,        \* the paths whose dataset has been opened and not closed
  replaced,      \* <<station, path>> of every os.replace executed
  ops            \* what was done with the file being processed, in order

vars ==
  <<overwrite, rootok, listing, fs, fs0, mpc, tpos, outcome, log, calls, pc, years,
    curyear, todo, myvariables, myzsize, myvertvalues, myvert, myncds, tmpvars,
    tmpname, featureType, same, order, opened, replaced, ops>>

\* the variables check_netcdf does not touch
outer == <<overwrite, rootok, listing, fs0, mpc, tpos, outcome, calls>>

\* ------------------------------------------------------ initial states
TA == <<"time", "air_temperature">>

\* stations of up to MaxFiles files of the rich family
StationsRich ==
  {StationOf(s) : s \in UNION {[1..n -> CatRich] : n \in 1..MaxFiles}}

\* stations of two files, faulty files among them
StationsFault == {StationOf(s) : s \in [1..2 -> CatRich \cup CatFault]}

\* stations of two point-series files in every declaration order
StationsCmp ==
  {StationOf(<<PointFile(a, TRUE), PointFile(b, TRUE)>>) : a, b \in VarOrders}

\* stations of two profile files: the canonical grid, then a file to remap
StationsVert ==
  {StationOf(<<ProfileFile(Prof3, c, 1, TD, "float32", 0),
               ProfileFile(Prof3, l, n, TD, dt, base)>>) :
     c \in IncLevels(MaxLev), l \in IncLevels(MaxLev), n \in 1..MaxTime,
     dt \in {"float32", "int32"}, base \in {0, 40000}}

\* paths of the ordering family: years "9" and "10", and a file beside them
OrderPaths ==
  ({Y9, Y10} \X {FA, FB, FBtxt, FAupd}) \cup {<<FA>>}

\* stations of up to three entries at any paths
StationsOrder ==
  UNION {[P -> {PointFile(TA, TRUE), PointFile(<<"time">>, TRUE)}] :
           P \in {Q \in SUBSET OrderPaths : Cardinality(Q) \in 1..3}}

\* root entries of the traversal family: a plain file, a directory that is no
\* station, and stations that return, raise at once, and raise on the second file
RootKinds == {"file", "dir", "ok", "raise", "late"}

KindFiles(k) ==
  CASE k = "ok" -> StationOf(<<PointFile(TA, TRUE), PointFile(<<"time">>, TRUE)>>)
    [] k = "raise" -> StationOf(<<[PointFile(TA, TRUE) EXCEPT !.ftype = "absent"]>>)
    [] k = "late" -> StationOf(<<PointFile(TA, TRUE),
                                 [PointFile(TA, TRUE) EXCEPT !.ftype = "absent"]>>)
    [] OTHER -> <<>>

\* the name of root entry i of kind k: "SNi" for a station, "xi" otherwise
KindName(k, i) ==
  IF k \in {"ok", "raise", "late"} THEN SNPrefix \o <<48 + i>> ELSE <<120, 48 + i>>

OneStation == <<[name |-> KindName("ok", 1), isdir |-> TRUE]>>

InitLocals ==
  /\ mpc = "main" /\ tpos = 0 /\ outcome = NoSize /\ log = <<>> /\ calls = <<>>
  /\ pc = "idle" /\ years = <<>> /\ curyear = <<>> /\ todo = <<>>
  /\ myvariables = <<>> /\ myzsize = NoSize /\ myvertvalues = <<>>
  /\ myvert = "unbound" /\ myncds = NoPath /\ tmpvars = <<>> /\ tmpname = NoPath
  /\ featureType = "" /\ same = TRUE /\ order = <<>> /\ opened = {}
  /\ replaced = {} /\ ops = <<>>

\* one station below a readable root
InitStation(S, ow) ==
  /\ overwrite \in ow /\ rootok = TRUE /\ listing = OneStation
  /\ \E st \in S : fs = <<st>>

\* a root of up to MaxRoot entries, or one that cannot be listed
InitRoot ==
  /\ overwrite \in BOOLEAN /\ rootok \in BOOLEAN
  /\ \E ks \in UNION {[1..n -> RootKinds] : n \in 0..MaxRoot} :
       /\ listing = [i \in 1..Len(ks) |->
                       [name |-> KindName(ks[i], i), isdir |-> ks[i] # "file"]]
       /\ fs = [i \in 1..Len(ks) |-> KindFiles(ks[i])]

Init ==
  /\ \/ InitStation(StationsRich \cup StationsFault \cup StationsCmp
                      \cup StationsOrder, BOOLEAN)
     \/ InitStation(StationsVert, {TRUE})
     \/ InitRoot
  /\ fs0 = fs
  /\ InitLocals

\* ------------------------------------------------------- the file system
\* the station directory check_netcdf works on, and its files
stdir == tpos + 1
Files == fs[stdir]

\* os.listdir(stdir), os.path.isdir(stdir/item), os.listdir(stdir/item)
ListStation == {p[1] : p \in DOMAIN Files}
IsDir(item) == \E p \in DOMAIN Files : Len(p) = 2 /\ p[1] = item
ListYear(item) == {p[2] : p \in {q \in DOMAIN Files : Len(q) = 2 /\ q[1] = item}}

\* the station's files with path p holding dataset d
WriteFile(p, d) == [q \in DOMAIN Files \cup {p} |-> IF q = p THEN d ELSE Files[q]]

\* os.replace(src, dst) inside the station
ReplaceFile(src, dst) ==
  [q \in (DOMAIN Files \ {src}) \cup {dst} |-> IF q = dst THEN Files[src] ELSE Files[q]]

\* vertical coordinates used
myvertcoord == {"depth", "height"}

\* ----------------------------------------------------------- check_netcdf
\* check_netcdf(stdir), lines 219-226: the locals, and the sorted year listing
CnStart ==
  /\ mpc = "station" /\ pc = "start"
  /\ myvariables' = <<>> /\ myzsize' = NoSize /\ myvertvalues' = <<>>
  /\ myvert' = "unbound" /\ myncds' = NoPath /\ tmpvars' = <<>> /\ tmpname' = NoPath
  /\ featureType' = "" /\ order' = <<>> /\ ops' = <<>>
  /\ years' = SortedReverse(ListStation)
  /\ pc' = "years"
  /\ UNCHANGED <<outer, fs, log, curyear, todo, same, opened, replaced>>

\* the outer loop, lines 226-231: the next year directory, or the return
CnNextYear ==
  /\ mpc = "station" /\ pc = "years"
  /\ IF years = <<>>
     THEN pc' = "done" /\ UNCHANGED <<years, curyear, todo>>
     ELSE /\ years' = Tail(years)
          /\ IF IsDir(Head(years))
             THEN /\ curyear' = Head(years)
                  /\ todo' = SortedReverse(ListYear(Head(years)))
                  /\ pc' = "files"
             ELSE UNCHANGED <<curyear, todo, pc>>
  /\ UNCHANGED <<outer, fs, log, myvariables, myzsize, myvertvalues, myvert, myncds,
                 tmpvars, tmpname, featureType, same, order, opened, replaced, ops>>

\* the inner loop, lines 231-238: the next file is opened if it is a .nc file
CnNextFile ==
  /\ mpc = "station" /\ pc = "files"
  /\ IF todo = <<>>
     THEN /\ pc' = "years"
          /\ UNCHANGED <<todo, myncds, tmpvars, tmpname, order, opened, ops>>
     ELSE /\ todo' = Tail(todo)
          /\ IF EndsWith(Head(todo), DotNc)
             THEN LET myfile == <<curyear, Head(todo)>>
                  IN  /\ myncds' = myfile
                      /\ tmpvars' = Files[myfile].varlist
                      /\ tmpname' = NoPath
                      /\ order' = Append(order, myfile)
                      /\ opened' = opened \cup {myfile}
                      /\ ops' = <<"open">>
                      /\ pc' = "ftype"
             ELSE UNCHANGED <<myncds, tmpvars, tmpname, order, opened, ops, pc>>
  /\ UNCHANGED <<outer, fs, log, years, curyear, myvariables, myzsize, myvertvalues,
                 myvert, featureType, same, replaced>>

\* lines 239-243: the featureType attribute, or the error re-raised
CnFeatureType ==
  /\ mpc = "station" /\ pc = "ftype"
  /\ IF Files[myncds].ftype = "absent"
     THEN /\ log' = Append(log, "ERROR This file does not have featureType.")
          /\ pc' = "raised"
          /\ UNCHANGED featureType
     ELSE /\ featureType' = Files[myncds].ftype
          /\ pc' = "grid"
          /\ UNCHANGED log
  /\ ops' = Append(ops, "getncattr")
  /\ UNCHANGED <<outer, fs, years, curyear, todo, myvariables, myzsize, myvertvalues,
                 myvert, myncds, tmpvars, tmpname, same, order, opened, replaced>>

\* myvert after the loop of lines 250-252 over the dimensions mydim
VertOf(mydim, old) ==
  LET hits == {i \in DOMAIN mydim : mydim[i] \in myvertcoord}
  IN  IF hits = {} THEN old ELSE mydim[CHOOSE i \in hits : \A j \in hits : j <= i]

\* "not myzsize" of line 253: None and 0 are both false in Python
NoGridYet(z) == z = NoSize \/ z = 0

\* lines 244-258: the vertical dimension is located; the first profile file
\* sets the canonical grid, a later one is compared with it
CnGrid ==
  /\ mpc = "station" /\ pc = "grid"
  /\ IF featureType # "timeSeriesProfile"
     THEN pc' = "schema" /\ UNCHANGED <<log, myvert, myzsize, myvertvalues>>
     ELSE LET ncds == Files[myncds]
              hasst == "soil_temperature" \in Range(tmpvars)
              mydim == IF hasst THEN ncds.v["soil_temperature"].dims ELSE <<>>
              vert == VertOf(mydim, myvert)
          IN  IF hasst /\ Len(mydim) > 2
              THEN /\ log' = Append(log, "ERROR Cannot handle more than 2 dimensions.")
                   /\ pc' = "raised"
                   /\ UNCHANGED <<myvert, myzsize, myvertvalues>>
              ELSE /\ myvert' = vert
                   /\ IF vert \notin Range(ncds.varlist)
                      THEN pc' = "raised" /\ UNCHANGED <<log, myzsize, myvertvalues>>
                      ELSE IF NoGridYet(myzsize)
                      THEN /\ myzsize' = NcSize(ncds.v[vert])
                           /\ myvertvalues' = NcValues(ncds.v[vert])
                           /\ pc' = "schema"
                           /\ UNCHANGED log
                      ELSE IF NcSize(ncds.v[vert]) # myzsize
                      THEN /\ log' = Append(log, "WARNING varying vertical levels")
                           /\ pc' = "vertlev"
                           /\ UNCHANGED <<myzsize, myvertvalues>>
                      ELSE pc' = "schema" /\ UNCHANGED <<log, myzsize, myvertvalues>>
  /\ ops' = IF featureType = "timeSeriesProfile" THEN Append(ops, "read") ELSE ops
  /\ UNCHANGED <<outer, fs, years, curyear, todo, myvariables, myncds, tmpvars,
                 tmpname, featureType, same, order, opened, replaced>>

\* newfile = orgfile + '-updated'
NewFile(orgfile) == <<orgfile[1], orgfile[2] \o DashUpdated>>

\* faulty tests of the overwrite flag: always taken, and inverted
CreatesNewAlways(flag) == TRUE

CreatesNewInverted(flag) == ~flag

\* "if args.overwrite" of line 151: only then is the new dataset created
CreatesNew(flag) == flag

\* update_vertlev as called at line 260.  Without args.overwrite it raises
\* before any dataset is created (raise of a str is a TypeError, logged and
\* re-raised); line 263 turns every failure into an Exception.  With the new
\* dataset created in memory (diskless, persist) a failure on the original may
\* or may not leave the unfinished file behind, depending on when the dataset
\* object is finalised.
CnUpdateVertlev ==
  /\ mpc = "station" /\ pc = "vertlev"
  /\ LET ncds == Files[myncds]
         newfile == NewFile(myncds)
     IN  IF ~CreatesNew(overwrite)
         THEN /\ log' = log \o <<"ERROR To perform this action overwrite is needed...",
                                 "ERROR Could not create new diskless dataset"
                               >>
              /\ pc' = "raised"
              /\ UNCHANGED <<fs, tmpname, ops>>
         ELSE IF VertlevRaises(ncds, myvert)
         THEN /\ pc' = "raised"
              /\ ops' = Append(ops, "read")
              /\ \/ UNCHANGED fs
                 \/ fs' = [fs EXCEPT ![stdir] =
                             WriteFile(newfile, PartialNew(ncds, myvert, myvertvalues))]
              /\ UNCHANGED <<log, tmpname>>
         ELSE /\ fs' = [fs EXCEPT ![stdir] =
                          WriteFile(newfile, update_vertlev(ncds, myvert, myvertvalues))]
              /\ tmpname' = newfile
              /\ ops' = ops \o <<"read", "newclose">>
              /\ pc' = "schema"
              /\ UNCHANGED log
  /\ UNCHANGED <<outer, years, curyear, todo, myvariables, myzsize, myvertvalues,
                 myvert, myncds, tmpvars, featureType, same, order, opened, replaced>>

\* tmpdict of lines 266-275 for variable el of ncds
TmpDict(ncds, el) ==
  [name |-> el, dtype |-> ncds.v[el].dtype,
   missing |-> IF el # "time" THEN Str(ncds.v[el].fill) ELSE EmptyStr]

\* list(myvariables.keys())
Keys(ref) == [i \in DOMAIN ref |-> ref[i].name]

\* lines 264-277: with no reference schema yet, the schema of this file is
\* captured and the loop continues with the next file (the file is not closed)
CnCapture ==
  /\ mpc = "station" /\ pc = "schema"
  /\ Len(Keys(myvariables)) = 0
  /\ LET ncds == Files[myncds]
     IN  IF \E i \in DOMAIN tmpvars : ~ncds.v[tmpvars[i]].attrs
         THEN pc' = "raised" /\ UNCHANGED myvariables
         ELSE /\ myvariables' = [i \in DOMAIN tmpvars |-> TmpDict(ncds, tmpvars[i])]
              /\ pc' = "files"
  /\ ops' = Append(ops, "read")
  /\ UNCHANGED <<outer, fs, log, years, curyear, todo, myzsize, myvertvalues, myvert,
                 myncds, tmpvars, tmpname, featureType, same, order, opened, replaced>>

RECURSIVE BackfillStops(_, _, _)
\* a faulty loop: the first error of update_variables ends it
BackfillStops(ncds, present, ref) ==
  IF ref = <<>> THEN [ncds |-> ncds, tried |-> 0, errors |-> 0]
  ELSE IF Head(ref).name \notin Range(present)
  THEN LET r == update_variables(ncds, Head(ref))
           rest == BackfillStops(r.ncds, present, Tail(ref))
       IN  IF r.raised THEN [ncds |-> r.ncds, tried |-> 1, errors |-> 1]
           ELSE [ncds |-> rest.ncds, tried |-> rest.tried + 1, errors |-> rest.errors]
  ELSE BackfillStops(ncds, present, Tail(ref))

RECURSIVE Backfill(_, _, _)
\* the loop of lines 280-286 over the reference variables ref: the dataset
\* afterwards, the number of calls of update_variables and the number of
\* errors logged
Backfill(ncds, present, ref) ==
  IF ref = <<>> THEN [ncds |-> ncds, tried |-> 0, errors |-> 0]
  ELSE IF Head(ref).name \notin Range(present)
  THEN LET r == update_variables(ncds, Head(ref))
           rest == Backfill(r.ncds, present, Tail(ref))
       IN  [ncds |-> rest.ncds, tried |-> rest.tried + 1,
            errors |-> rest.errors + (IF r.raised THEN 1 ELSE 0)]
  ELSE Backfill(ncds, present, Tail(ref))

\* a faulty order of the statements after the comparison: the rebuilt file is
\* moved over the original before the original is closed
AfterStepReplaceFirst(p) ==
  CASE p = "schema" -> "replace" [] p = "replace" -> "close" [] OTHER -> "files"

\* the order of the statements of lines 278-303: the comparison and the
\* backfill, the close of the original, the replace, the next file
AfterStep(p) ==
  CASE p = "schema" -> "close" [] p = "close" -> "replace" [] OTHER -> "files"

\* lines 278-288: the file is compared with the reference and backfilled
CnReconcile ==
  /\ mpc = "station" /\ pc = "schema"
  /\ Len(Keys(myvariables)) # 0
  /\ same' = compare_varlists(tmpvars, Keys(myvariables))
  /\ IF same' = FALSE
     THEN LET r == Backfill(Files[myncds], tmpvars, myvariables)
          IN  /\ fs' = [fs EXCEPT ![stdir] = WriteFile(myncds, r.ncds)]
              /\ log' = log \o <<"WARNING This file has different variables than others">>
                            \o [i \in 1..r.errors |->
                                  "ERROR Something failed when updating file."]
              /\ ops' = ops \o [i \in 1..r.tried |-> "update_variables"]
                            \o <<"reconciled">>
     ELSE /\ ops' = Append(ops, "reconciled")
          /\ UNCHANGED <<fs, log>>
  /\ pc' = AfterStep("schema")
  /\ UNCHANGED <<outer, years, curyear, todo, myvariables, myzsize, myvertvalues,
                 myvert, myncds, tmpvars, tmpname, featureType, order, opened, replaced>>

\* lines 289-293: the original file is closed
CnClose ==
  /\ mpc = "station" /\ pc = "close"
  /\ opened' = opened \ {myncds}
  /\ ops' = Append(ops, "close")
  /\ pc' = AfterStep("close")
  /\ UNCHANGED <<outer, fs, log, years, curyear, todo, myvariables, myzsize,
                 myvertvalues, myvert, myncds, tmpvars, tmpname, featureType, same,
                 order, replaced>>

\* "tmpname and args.overwrite" of line 294
MayReplace(name, flag) == name # NoPath /\ flag

\* lines 294-303: the rebuilt file replaces the original
CnReplace ==
  /\ mpc = "station" /\ pc = "replace"
  /\ IF MayReplace(tmpname, overwrite)
     THEN /\ fs' = [fs EXCEPT ![stdir] = ReplaceFile(tmpname, myncds)]
          /\ replaced' = replaced \cup {<<stdir, myncds>>}
          /\ ops' = Append(ops, "replace")
     ELSE UNCHANGED <<fs, replaced, ops>>
  /\ pc' = AfterStep("replace")
  /\ UNCHANGED <<outer, log, years, curyear, todo, myvariables, myzsize,
                 myvertvalues, myvert, myncds, tmpvars, tmpname, featureType, same,
                 order, opened>>

\* --------------------------------------- __main__ and traverse_structure
\* a faulty end of the script: a handled exception gives a non-zero status
ExitStatusFails(handled) == IF handled THEN 1 ELSE 0

\* the exit status when the script runs to its end, with or without an exception
\* handled at lines 323-324: the handler only logs
ExitStatus(handled) == 0

\* lines 308-319: the arguments are parsed and the logger is set up
MainStart ==
  /\ mpc = "main"
  /\ mpc' = "traverse"
  /\ UNCHANGED <<overwrite, rootok, listing, fs, fs0, tpos, outcome, log, calls, pc,
                 years, curyear, todo, myvariables, myzsize, myvertvalues, myvert,
                 myncds, tmpvars, tmpname, featureType, same, order, opened, replaced, ops>>

\* line 318 (lines 61-65): initialise_logger raises IOError outside any try
MainLoggerFails ==
  /\ mpc = "main"
  /\ mpc' = "crashed" /\ outcome' = 1
  /\ UNCHANGED <<overwrite, rootok, listing, fs, fs0, tpos, log, calls, pc,
                 years, curyear, todo, myvariables, myzsize, myvertvalues, myvert,
                 myncds, tmpvars, tmpname, featureType, same, order, opened, replaced, ops>>

\* line 92: os.listdir(myfolder); it raises outside the try of line 100
TraverseList ==
  /\ mpc = "traverse"
  /\ mpc' = IF rootok THEN "loop" ELSE "mainexcept"
  /\ UNCHANGED <<overwrite, rootok, listing, fs, fs0, tpos, outcome, log, calls, pc,
                 years, curyear, todo, myvariables, myzsize, myvertvalues, myvert,
                 myncds, tmpvars, tmpname, featureType, same, order, opened, replaced, ops>>

\* lines 92-101: the next root entry; check_netcdf is called on a station
\* directory; past the last entry traverse_structure returns and the run ends
TraverseItem ==
  /\ mpc = "loop"
  /\ IF tpos = Len(listing)
     THEN /\ mpc' = "exit" /\ outcome' = ExitStatus(FALSE)
          /\ UNCHANGED <<tpos, log, calls, pc>>
     ELSE LET item == listing[tpos + 1]
          IN  IF ~item.isdir
              THEN tpos' = tpos + 1 /\ UNCHANGED <<mpc, outcome, log, calls, pc>>
              ELSE IF ~StartsWith(item.name, SNPrefix)
              THEN /\ tpos' = tpos + 1
                   /\ log' = Append(log, "WARNING Apparently this is not a station folder.")
                   /\ UNCHANGED <<mpc, outcome, calls, pc>>
              ELSE /\ calls' = Append(calls, tpos + 1)
                   /\ mpc' = "station" /\ pc' = "start"
                   /\ UNCHANGED <<tpos, outcome, log>>
  /\ UNCHANGED <<overwrite, rootok, listing, fs, fs0, years, curyear, todo,
                 myvariables, myzsize, myvertvalues, myvert, myncds, tmpvars, tmpname,
                 featureType, same, order, opened, replaced, ops>>

\* check_netcdf returned: the loop of line 92 goes on
StationReturn ==
  /\ mpc = "station" /\ pc = "done"
  /\ tpos' = tpos + 1 /\ mpc' = "loop" /\ pc' = "idle"
  /\ UNCHANGED <<overwrite, rootok, listing, fs, fs0, outcome, log, calls,
                 years, curyear, todo, myvariables, myzsize, myvertvalues, myvert,
                 myncds, tmpvars, tmpname, featureType, same, order, opened, replaced, ops>>

\* where the handler of lines 102-104 leaves traverse_structure: a faulty
\* handler that goes on with the next root entry
HandlerContinues(t) == [mpc |-> "loop", tpos |-> t + 1]

\* the handler of lines 102-104 ends in "raise": traverse_structure is left
HandlerTarget(t) == [mpc |-> "mainexcept", tpos |-> t]

\* lines 102-104: check_netcdf raised; the error is logged and re-raised
TraverseExcept ==
  /\ mpc = "station" /\ pc = "raised"
  /\ log' = Append(log, "ERROR Something failed.")
  /\ mpc' = HandlerTarget(tpos).mpc /\ tpos' = HandlerTarget(tpos).tpos
  /\ pc' = "idle"
  /\ UNCHANGED <<overwrite, rootok, listing, fs, fs0, outcome, calls,
                 years, curyear, todo, myvariables, myzsize, myvertvalues, myvert,
                 myncds, tmpvars, tmpname, featureType, same, order, opened, replaced, ops>>

\* lines 323-324: an exception out of traverse_structure is logged; the script
\* then ends normally
MainExcept ==
  /\ mpc = "mainexcept"
  /\ log' = Append(log, "ERROR Something failed %s")
  /\ mpc' = "exit" /\ outcome' = ExitStatus(TRUE)
  /\ UNCHANGED <<overwrite, rootok, listing, fs, fs0, tpos, calls, pc,
                 years, curyear, todo, myvariables, myzsize, myvertvalues, myvert,
                 myncds, tmpvars, tmpname, featureType, same, order, opened, replaced, ops>>

Next ==
  \/ MainStart
  \/ MainLoggerFails
  \/ TraverseList
  \/ TraverseItem
  \/ StationReturn
  \/ TraverseExcept
  \/ MainExcept
  \/ CnStart
  \/ CnNextYear
  \/ CnNextFile
  \/ CnFeatureType
  \/ CnGrid
  \/ CnUpdateVertlev
  \/ CnCapture
  \/ CnReconcile
  \/ CnClose
  \/ CnReplace

Spec == Init /\ [][Next]_vars

\* ------------------------------------------------------------ properties
\* check_netcdf is about to return to traverse_structure
AtReturn == mpc = "station" /\ pc = "done"

\* check_netcdf is running and has set up its locals
InStation == mpc = "station" /\ pc # "start"

\* the variable names of the first file visited, as the station was found
RefNames == IF order = <<>> THEN {} ELSE Range(fs0[stdir][order[1]].varlist)

\* the .nc files in the year directories of the station
NcPaths == {p \in DOMAIN Files : Len(p) = 2 /\ EndsWith(p[2], DotNc)}

\* (year, file name) of p before that of q
PathLess(p, q) == LexLess(p[1], q[1]) \/ (p[1] = q[1] /\ LexLess(p[2], q[2]))

\* the visits of profile files
Profs == {i \in DOMAIN order : Files[order[i]].ftype = "timeSeriesProfile"}

\* the number of vertical levels of a profile dataset
LevelCount(ncds) == NcSize(ncds.v["depth"])

InLog(msg) == \E i \in DOMAIN log : log[i] = msg

\* a vertical-grid mismatch was found
MismatchSeen == InLog("WARNING varying vertical levels")

\* update_vertlev refused to rebuild
Refused == InLog("ERROR To perform this action overwrite is needed...")

\* check_netcdf raised and traverse_structure handled it
StationRaised == InLog("ERROR Something failed.")

\* root entry i is a station directory
IsStation(i) == listing[i].isdir /\ StartsWith(listing[i].name, SNPrefix)

\* C1: when check_netcdf returns, every visited file declares every variable
\* of the first file visited, whether the file was left alone, backfilled or
\* rebuilt and swapped in.
C1_BackfillComplete ==
  AtReturn => \A i \in DOMAIN order : RefNames \subseteq Range(Files[order[i]].varlist)

\* C2: the backfill step keeps every variable the file had, in its place and
\* with its dimensions, attributes and values; what it adds are reference
\* variables the file lacked, reading as their missing value; no other file
\* changes.
C2_AdditiveBackfill ==
  [][(mpc = "station" /\ pc = "schema" /\ pc' = "close") =>
       LET before == fs[stdir][myncds]
           after == fs'[stdir][myncds]
       IN  /\ Len(after.varlist) >= Len(before.varlist)
           /\ SubSeq(after.varlist, 1, Len(before.varlist)) = before.varlist
           /\ \A n \in Range(before.varlist) : after.v[n] = before.v[n]
           /\ \A k \in (Len(before.varlist) + 1)..Len(after.varlist) :
                /\ after.varlist[k] \notin Range(before.varlist)
                /\ after.varlist[k] \in Range(Keys(myvariables))
                /\ \A i \in DOMAIN after.v[after.varlist[k]].data :
                     after.v[after.varlist[k]].data[i] = <<after.v[after.varlist[k]].fill>>
           /\ DOMAIN fs'[stdir] = DOMAIN fs[stdir]
           /\ \A q \in DOMAIN fs[stdir] \ {myncds} : fs'[stdir][q] = fs[stdir][q]]_vars

\* C2 witness: a file with a variable outside the reference has been given a
\* variable it lacked.
C2_Witness ==
  /\ mpc = "station" /\ pc = "close"
  /\ Len(Files[myncds].varlist) > Len(tmpvars)
  /\ \E n \in Range(tmpvars) : n \notin Range(Keys(myvariables))

C4_UniformGrid ==
  (AtReturn /\ overwrite) =>
    \A i \in Profs :
      LevelCount(Files[order[i]]) = LevelCount(fs0[stdir][order[Min(Profs)]])

\* C5: in the file update_vertlev produces, cell (i, j) of every profile
\* variable is the original cell (i, k), k the first original level close to
\* canonical level j, and the variable's missing value when there is none.
C5_Remapping ==
  [][(mpc = "station" /\ pc = "vertlev" /\ pc' = "schema") =>
       LET org == fs[stdir][myncds]
           new == fs'[stdir][NewFile(myncds)]
           lev == NcValues(org.v[myvert])
       IN  \A e \in DOMAIN myvars :
             \A i \in 1..NcSize(org.v["time"]) :
               \A j \in 1..Len(myvertvalues) :
                 LET ks == {k \in DOMAIN lev : isclose(lev[k], myvertvalues[j])}
                 IN  new.v[myvars[e]].data[i][j] =
                       IF ks # {} THEN org.v[myvars[e]].data[i][Min(ks)]
                       ELSE org.v[myvars[e]].fill]_vars

\* C6 as claimed: when the run ends after the root was listed, check_netcdf has
\* been invoked on every station directory of the root, whether or not an
\* earlier station raised.
C6_SiblingsProcessed ==
  (mpc = "exit" /\ rootok) => \A i \in DOMAIN listing : IsStation(i) => i \in Range(calls)

\* C6 amended: when check_netcdf raises for a station, traverse_structure logs
\* the failure and re-raises it; check_netcdf is invoked on no root entry after
\* that station, and __main__ logs the error.
C6_FailureEndsTraversal ==
  StationRaised =>
    /\ mpc \in {"mainexcept", "exit"}
    /\ calls # <<>> /\ calls[Len(calls)] = tpos + 1
    /\ \A k \in DOMAIN calls : calls[k] <= tpos + 1
    /\ mpc = "exit" => log[Len(log)] = "ERROR Something failed %s"

\* C6 witness: the run has ended after a station raised, with a station
\* directory behind it in the listing.
C6_Witness ==
  /\ mpc = "exit" /\ StationRaised
  /\ \E j \in DOMAIN listing : j > tpos + 1 /\ IsStation(j)

C9_NonZeroIffTraversalFails ==
  mpc = "exit" => (outcome # 0 <=> ~rootok)

\* C9 amended: once the logger is set up the run ends with outcome zero in
\* every case; a failure of the top-level traversal, like a failure inside a
\* station or a file, is reported only in the log.
C9_OutcomeAlwaysZero ==
  mpc = "exit" =>
    /\ outcome = 0
    /\ (~rootok \/ StationRaised) => log[Len(log)] = "ERROR Something failed %s"

\* C9 witness: the run has ended after the root could not be listed.
C9_Witness == mpc = "exit" /\ ~rootok

\* C10: compare_varlists gives True exactly when the file and the reference
\* declare the same names, in whatever order; when it does, the file and every
\* other file of the station are left as they were.
C10_OrderIndependent ==
  [][(mpc = "station" /\ pc = "schema" /\ pc' = "close") =>
       /\ same' = (Range(tmpvars) = Range(Keys(myvariables)))
       /\ same' => fs' = fs]_vars

\* C10 witness: a file declaring the reference variables in another order has
\* been found equal.
C10_Witness ==
  /\ mpc = "station" /\ pc = "close" /\ same
  /\ tmpvars # Keys(myvariables) /\ Len(tmpvars) = 3

\* C11: whenever check_netcdf opens a file after another one of the station,
\* every dataset it opened before has been closed.  (A dataset that was not
\* closed is still referred to by myncds, and so still open, when the
\* Dataset call of line 236 returns the next one.)
C11_ScopedHandles ==
  [][(mpc = "station" /\ pc = "files" /\ order' # order) =>
       \A i \in DOMAIN order : order[i] \notin opened]_vars

\* C12: inside a station the reference schema changes only while the first
\* file visited is processed, and the canonical grid only while the first
\* profile file visited is processed; a later profile file whose level count
\* differs from the canonical count is handed to update_vertlev and the grid
\* stays as it is.
C12_WriteOnce ==
  [][InStation =>
       /\ myvariables' # myvariables => Len(order) = 1
       /\ (myzsize' # myzsize \/ myvertvalues' # myvertvalues) =>
            Len(order) = Min(Profs)
       /\ (pc = "grid" /\ pc' # "raised" /\ featureType = "timeSeriesProfile"
             /\ Len(order) # Min(Profs)
             /\ NcSize(Files[myncds].v[myvert']) # LevelCount(fs0[stdir][order[Min(Profs)]])) =>
            pc' = "vertlev" /\ myzsize' = myzsize /\ myvertvalues' = myvertvalues]_vars

\* the places of operation op in ops
Places(op) == {i \in DOMAIN ops : ops[i] = op}

\* C13: when the rebuilt file is moved over the original, the rebuilt file
\* has been closed, the comparison and every call of update_variables for the
\* file are over, and the original has been closed; nothing is done with the
\* file after the replace.  The replace is the step that swaps the file.
C13_ReplaceLast ==
  mpc = "station" =>
    /\ \A i \in Places("replace") :
         /\ i = Len(ops)
         /\ \E j \in Places("newclose") : j < i
         /\ \E j \in Places("reconciled") : j < i
         /\ \E j \in Places("close") : j < i
         /\ \A j \in Places("update_variables") : j < i
         /\ <<stdir, myncds>> \in replaced /\ myncds \notin opened
    /\ (tmpname # NoPath /\ NewFile(myncds) \notin DOMAIN Files) =>
         Places("replace") # {}

\* C13 witness: a file that was rebuilt and backfilled has been replaced.
C13_Witness ==
  /\ mpc = "station" /\ pc = "files" /\ overwrite
  /\ Places("replace") # {} /\ Places("update_variables") # {}

\* the error record of line 286
UpdateFailed == "ERROR Something failed when updating file."

\* C14: in the backfill step update_variables is called once for every
\* reference variable the file lacks, whether or not an earlier call raised;
\* every call that raises is logged, every variable whose call does not raise
\* is in the file afterwards, and the step ends at the close of the file, not
\* in an exception; the file is then closed and the loop goes on.
C14_PerVariableTolerance ==
  [][(mpc = "station") =>
       /\ (pc = "schema" /\ myvariables # <<>>) =>
            LET before == fs[stdir][myncds]
                after == fs'[stdir][myncds]
                lacking == {i \in DOMAIN myvariables :
                              myvariables[i].name \notin Range(tmpvars)}
                failing == {i \in lacking : update_variables(before, myvariables[i]).raised}
            IN  /\ pc' = "close"
                /\ Cardinality({k \in DOMAIN ops' : ops'[k] = "update_variables"})
                     = Cardinality(lacking)
                /\ Cardinality({k \in DOMAIN log' : log'[k] = UpdateFailed})
                     = Cardinality({k \in DOMAIN log : log[k] = UpdateFailed})
                         + Cardinality(failing)
                /\ \A i \in lacking \ failing : myvariables[i].name \in Range(after.varlist)
       /\ pc = "close" => (pc' = "replace" /\ myncds \notin opened')
       /\ pc = "replace" => pc' = "files"]_vars

\* C14 witness: a call of update_variables has raised without creating its
\* variable, the call for a later reference variable has still been made (its
\* variable is in the file), and the file is about to be closed.
C14_Witness ==
  /\ mpc = "station" /\ pc = "close" /\ InLog(UpdateFailed)
  /\ Cardinality(Places("update_variables")) >= 2
  /\ \E i, j \in DOMAIN myvariables :
       /\ i < j
       /\ myvariables[i].name \notin Range(tmpvars) \cup Range(Files[myncds].varlist)
       /\ myvariables[j].name \in Range(Files[myncds].varlist) \ Range(tmpvars)

============================================================================
